---- MODULE Spec2Model ----
(***************************************************************************)
(* Local persistence, analysis versioning, backup codec, stream decoder,    *)
(* credential storage and profile saves of the SkillLead career navigator. *)
(*                                                                         *)
(*   lib/db      (src/unnamed/part_002)  Dexie tables, export, import      *)
(*   lib/openai  (src/unnamed/part_003)  handleStreamResponse, API key     *)
(*   lib/stores  (src/unnamed/part_001)  zustand stores                    *)
(*   pages       (src/unnamed/part_008)  SettingsPage, OnboardingProfile   *)
(*   pages/AnalysisPage.tsx              startAnalysis                     *)
(*                                                                         *)
(* Dexie is taken at its documented contract: where({a, b}) selects the    *)
(* rows equal on both fields, every call outside db.transaction runs in a  *)
(* transaction of its own, and a transaction whose scope function rejects  *)
(* is rolled back as a whole.                                              *)
(***************************************************************************)
EXTENDS Integers, Sequences, FiniteSets, TLC

\* ------------------------------------------------------------------ bounds
MaxUsers == 2      \* user ids 1..MaxUsers
MaxRuns == 2       \* invocations of startAnalysis that can be in flight at once
MaxKey == 3        \* cap on the analyses key generator (rows ever added)
MaxDocRows == 2    \* rows per table in a backup document (keys 1..MaxDocRows)
MaxFrames == 3     \* lines in a provider response body
MaxSaves == 2      \* invocations of saveProfile that can be in flight at once
MaxMsgs == 4       \* rows of db.chatMessages
MaxExchanges == 2  \* invocations of handleSendMessage that can be in flight
MaxMessages == 5   \* length of useChatStore.messages
MaxDelta == 2      \* content fragments streamed in one exchange

Users == 1..MaxUsers
Runs == 1..MaxRuns
Saves == 1..MaxSaves

\* "no value": undefined / null in the source
None == [none |-> TRUE]

\* the seven tables of SkillLeadDB
Tables == {"users", "studentProfiles", "professionalProfiles", "analyses",
           "chatThreads", "chatMessages", "settings"}

\* ------------------------------------------------------------------ state
VARIABLES
    db,            \* SkillLeadDB: table name -> set of rows (each row has an id)
    keyGen,        \* key generator of db.analyses ('++id')
    runs,          \* one record per invocation slot of startAnalysis
    analysis,      \* useAnalysisStore.analysis (None or the record last set)
    isAnalyzing,   \* useAnalysisStore.isAnalyzing
    importOutcome, \* what the last importData call came to
    body,          \* the response body handleStreamResponse is given (tokens)
    pos,           \* how many tokens of body the reader has delivered
    pcStream,      \* "reading" (in the while loop), "returned" or "threw"
    fullContent,   \* let fullContent
    calls,         \* the arguments onStream has been called with, in order
    result,        \* the value handleStreamResponse returned
    parsed,        \* history: the fragment of every line JSON.parse accepted
    atDone,        \* history: fullContent and #calls when [DONE] was first seen
    sessionStorage, \* item 'openai-api-key', in each of the two compared runs
    localStorage,  \* item 'openai-api-key-encrypted', in each of the two runs
    openaiKey,     \* useSettingsStore.openaiKey, in each of the two runs
    isKeyValid,    \* useSettingsStore.isKeyValid
    settings,      \* useSettingsStore.settings (None or its openaiKeyStored)
    currentUser,   \* useAuthStore.currentUser: a user id, 0 for null
    exported,      \* the document handleExportData last wrote, in each run
    lastCred,      \* history: the last setApiKey / clearApiKey call
    loggedOut,     \* history: logout() was called since the last setApiKey
    saves,         \* one record per invocation slot of saveProfile
    saving,        \* OnboardingProfile's saving flag
    saveTimer,     \* the timeout of debouncedSave is pending
    profileKeyGen, \* key generators of the two profile tables
    currentRole,   \* useAuthStore.currentUser.role ("none" while it is null)
    usersKeyGen,   \* key generator of db.users
    roleOutcome,   \* history: the last handleRoleSelection since the login
    messages,      \* useChatStore.messages
    isStreaming,   \* useChatStore.isStreaming
    mounted,       \* ChatPage is on screen
    isInitialized, \* ChatPage's local useState flag
    exchange,      \* each invocation of handleSendMessage: where it stands
    exportPc,      \* exportAllData: "idle", "reading" or "done"
    readDone,      \* the tables whose toArray has been answered
    snapshot,      \* what each answered toArray returned
    seen,          \* history: the store states since exportAllData was called
    ahead          \* writes requested before exportAllData and still pending

analysisVars == <<runs, analysis, isAnalyzing>>
backupVars == <<importOutcome>>
streamVars == <<body, pos, pcStream, fullContent, calls, result, parsed, atDone>>
credVars == <<sessionStorage, localStorage, openaiKey, isKeyValid, settings,
              currentUser, exported, lastCred, loggedOut>>
saveVars == <<saves, saving, saveTimer, profileKeyGen>>
roleVars == <<currentRole, usersKeyGen, roleOutcome>>
chatVars == <<messages, isStreaming, mounted, isInitialized, exchange>>
exportVars == <<exportPc, readDone, snapshot, seen, ahead>>
otherVars == <<roleVars, chatVars, exportVars>>

\* IndexedDB runs transactions whose scopes overlap in the order of their
\* creation when one of them writes: a write w on tables tabs waits for the
\* pending reads of exportAllData unless it was requested before them; every
\* store state that comes up during an export is remembered
Observe(w, tabs) ==
    /\ exportPc = "reading" => (w \in ahead \/ tabs \subseteq readDone)
    /\ seen' = IF exportPc = "reading" THEN seen \cup {db'} ELSE seen
    /\ ahead' = ahead \ {w}
    /\ UNCHANGED <<exportPc, readDone, snapshot>>

\* ------------------------------------------------- Dexie table operations
\* db.analyses.where({ userId, latest: true })
WhereUserFirstLatest(tab, u) ==
    {row \in tab : /\ row.userId = u
                   /\ row.latest = TRUE
                   /\ \A x \in tab : (x.userId = u /\ x.latest = TRUE) => row.id <= x.id}

WhereUserLatest(tab, u) == {row \in tab : row.userId = u /\ row.latest = TRUE}

\* collection.modify({ latest: false }) on the rows of sel
ModifySkipped(tab, sel) == tab

ModifyWholeTable(tab, sel) == {[row EXCEPT !.latest = FALSE] : row \in tab}

Modify(tab, sel) ==
    {IF row \in sel THEN [row EXCEPT !.latest = FALSE] ELSE row : row \in tab}

\* table.add(rec) on a '++id' table: the key generator supplies the key
Add(tab, gen, rec) ==
    tab \cup {[id |-> gen + 1, userId |-> rec.userId,
               latest |-> rec.latest, version |-> rec.version]}

Min(S) == CHOOSE x \in S : \A y \in S : x <= y
Max(S) == CHOOSE x \in S : \A y \in S : x >= y

\* getLatestAnalysis(userId): where({userId, latest: true}).first(); the
\* collection is walked in index order, equal index keys by primary key
getLatestAnalysis(u) ==
    LET sel == WhereUserLatest(db.analyses, u)
    IN  IF sel = {} THEN None
        ELSE CHOOSE row \in sel : row.id = Min({x.id : x \in sel})

\* ------------------------------------------------------------ startAnalysis
\* const analysisRecord = { userId: currentUser.id, ..., latest: true, version: 1 }
analysisRecord(u) == [userId |-> u, latest |-> TRUE, version |-> 1]

\* pc     where the invocation stands;  user  currentUser.id of its closure
\* stage  the await that rejected;      before  the analyses table as it was
\*        when the recording (lines 91-95) began, kept for the properties
IdleRun == [pc |-> "idle", user |-> 0, stage |-> "none", before |-> {}]

\* startAnalysis(): the guard of line 39 passed, setAnalyzing(true), and the
\* function is somewhere in lines 45-89 (step loop, analysisResult)
StartAnalysis(r, u) ==
    /\ runs[r].pc = "idle"
    /\ runs' = [runs EXCEPT ![r] = [IdleRun EXCEPT !.pc = "running", !.user = u]]
    /\ isAnalyzing' = TRUE
    /\ UNCHANGED <<db, keyGen, analysis, backupVars, streamVars, credVars, saveVars, otherVars>>

\* useEffect(() => { if (!analysis && profile && currentUser) startAnalysis() })
MountEffect(r, u) ==
    /\ analysis = None
    /\ StartAnalysis(r, u)

\* handleRetryAnalysis / handleDemoMode: the buttons are rendered only while
\* isAnalyzing is false
RetryAnalysis(r, u) ==
    /\ ~isAnalyzing
    /\ StartAnalysis(r, u)

\* generateCareerAnalysis throws (provider error, JSON.parse of the answer)
GenerateFail(r) ==
    /\ runs[r].pc = "running"
    /\ runs' = [runs EXCEPT ![r].pc = "failed", ![r].stage = "generate"]
    /\ UNCHANGED <<db, keyGen, analysis, isAnalyzing, backupVars, streamVars, credVars, saveVars, otherVars>>

\* await db.analyses.where({ userId, latest: true }).modify({ latest: false })
Flip(r) ==
    /\ runs[r].pc = "running"
    /\ db' = [db EXCEPT !.analyses =
                 Modify(db.analyses, WhereUserLatest(db.analyses, runs[r].user))]
    /\ runs' = [runs EXCEPT ![r].pc = "flipped", ![r].before = db.analyses]
    /\ UNCHANGED <<keyGen, analysis, isAnalyzing, backupVars, streamVars, credVars, saveVars, roleVars, chatVars>>
    /\ Observe(<<"flip", r>>, {"analyses"})

\* the modify rejects: its own transaction aborts, the table is unchanged
FlipFail(r) ==
    /\ runs[r].pc = "running"
    /\ runs' = [runs EXCEPT ![r].pc = "failed", ![r].stage = "flip",
                            ![r].before = db.analyses]
    /\ UNCHANGED <<db, keyGen, analysis, isAnalyzing, backupVars, streamVars, credVars, saveVars, otherVars>>

\* await db.analyses.add(analysisRecord)
Insert(r) ==
    /\ runs[r].pc = "flipped"
    /\ keyGen < MaxKey
    /\ db' = [db EXCEPT !.analyses =
                 Add(db.analyses, keyGen, analysisRecord(runs[r].user))]
    /\ keyGen' = keyGen + 1
    /\ runs' = [runs EXCEPT ![r].pc = "added"]
    /\ UNCHANGED <<analysis, isAnalyzing, backupVars, streamVars, credVars, saveVars, roleVars, chatVars>>
    /\ Observe(<<"run", r>>, {"analyses"})

\* the add rejects (quota, aborted request): nothing is inserted, and the
\* modify of line 92 was committed by its own transaction
InsertFail(r) ==
    /\ runs[r].pc = "flipped"
    /\ runs' = [runs EXCEPT ![r].pc = "failed", ![r].stage = "insert"]
    /\ UNCHANGED <<db, keyGen, analysis, isAnalyzing, backupVars, streamVars, credVars, saveVars, otherVars>>

\* setAnalysis(analysisRecord); ...; finally { setAnalyzing(false) }
Complete(r) ==
    /\ runs[r].pc = "added"
    /\ analysis' = analysisRecord(runs[r].user)
    /\ isAnalyzing' = FALSE
    /\ runs' = [runs EXCEPT ![r] = IdleRun]
    /\ UNCHANGED <<db, keyGen, backupVars, streamVars, credVars, saveVars, otherVars>>

\* catch (error) { toast }; finally { setAnalyzing(false) }
CatchWithoutFinally(r) ==
    /\ runs[r].pc = "failed"
    /\ runs' = [runs EXCEPT ![r] = IdleRun]
    /\ UNCHANGED <<db, keyGen, analysis, isAnalyzing, backupVars, streamVars,
                   credVars, saveVars, otherVars>>

CatchFailure(r) ==
    /\ runs[r].pc = "failed"
    /\ isAnalyzing' = FALSE
    /\ runs' = [runs EXCEPT ![r] = IdleRun]
    /\ UNCHANGED <<db, keyGen, analysis, backupVars, streamVars, credVars, saveVars, otherVars>>

InitStore ==
    /\ db = [t \in Tables |-> {}]
    /\ keyGen = 0

InitAnalysis ==
    /\ runs = [r \in Runs |-> IdleRun]
    /\ analysis = None
    /\ isAnalyzing = FALSE

InitBackup == importOutcome = [status |-> "none", source |-> "none"]

vars == <<db, keyGen, runs, analysis, isAnalyzing, importOutcome,
          body, pos, pcStream, fullContent, calls, result, parsed, atDone,
          sessionStorage, localStorage, openaiKey, isKeyValid, settings,
          currentUser, exported, lastCred, loggedOut,
          saves, saving, saveTimer, profileKeyGen,
          currentRole, usersKeyGen, roleOutcome,
          messages, isStreaming, mounted, isInitialized, exchange,
          exportPc, readDone, snapshot, seen, ahead>>

\* nobody has chosen a role
InitRole ==
    /\ currentRole = "none"
    /\ usersKeyGen = 0
    /\ roleOutcome = [status |-> "none", found |-> FALSE, before |-> "none"]

Exchanges == 1..MaxExchanges

IdleExchange == [pc |-> "idle", placeholder |-> 0, n |-> 0]

\* useChatStore's initial state, ChatPage not on screen
InitChat ==
    /\ messages = <<>>
    /\ isStreaming = FALSE
    /\ mounted = FALSE
    /\ isInitialized = FALSE
    /\ exchange = [e \in Exchanges |-> IdleExchange]

\* no export is running
InitExport ==
    /\ exportPc = "idle"
    /\ readDone = {}
    /\ snapshot = [t \in Tables |-> {}]
    /\ seen = {}
    /\ ahead = {}

InitOther == InitRole /\ InitChat /\ InitExport

\* the table a profile of the given role is kept in
ProfileTable(isStudent) ==
    IF isStudent THEN "studentProfiles" ELSE "professionalProfiles"

ProfileTables == {ProfileTable(TRUE), ProfileTable(FALSE)}

\* currentUser.role === 'student': user 1 is the student, the others are
\* professionals
isStudent(u) == u = 1

\* pc  where the invocation stands;  user  currentUser.id of its closure
\* table  the table of its role;  existing  the key of existingProfile, 0
\* for undefined;  silent  the argument
IdleSave == [pc |-> "idle", user |-> 0, table |-> "none", existing |-> 0,
             silent |-> FALSE]

\* OnboardingProfile is mounted, nothing is being saved
InitSave ==
    /\ saves = [s \in Saves |-> IdleSave]
    /\ saving = FALSE
    /\ saveTimer = FALSE
    /\ profileKeyGen = [t \in ProfileTables |-> 0]

\* two runs of the program that are given the same calls and differ only in
\* the key values handed to setApiKey
Twins == {1, 2}

\* the API keys a user may enter, and the null of a missing storage item
Keys == {"sk-a", "sk-b"}
Null == "null"

\* nothing saved, nobody logged in, nothing exported
InitCred ==
    /\ sessionStorage = [w \in Twins |-> Null]
    /\ localStorage = [w \in Twins |-> Null]
    /\ openaiKey = [w \in Twins |-> ""]
    /\ isKeyValid = FALSE
    /\ settings = None
    /\ currentUser = 0
    /\ exported = [w \in Twins |-> None]
    /\ lastCred = [op |-> "none", persistent |-> FALSE, key |-> [w \in Twins |-> Null]]
    /\ loggedOut = FALSE

\* no provider response is being decoded
NoStream ==
    /\ body = <<>>
    /\ pos = 0
    /\ pcStream = "returned"
    /\ fullContent = <<>>
    /\ calls = <<>>
    /\ result = <<>>
    /\ parsed = <<>>
    /\ atDone = [seen |-> FALSE, content |-> <<>>, calls |-> 0]

Init ==
    /\ InitStore /\ InitAnalysis /\ InitBackup /\ NoStream /\ InitCred /\ InitSave
    /\ InitOther

\* one step of invocation r of startAnalysis
RunStep(r) ==
    \/ \E u \in Users : MountEffect(r, u)
    \/ \E u \in Users : RetryAnalysis(r, u)
    \/ GenerateFail(r)
    \/ Flip(r)
    \/ FlipFail(r)
    \/ Insert(r)
    \/ InsertFail(r)
    \/ Complete(r)
    \/ CatchFailure(r)

\* every interleaving of the invocations of startAnalysis
Next == \E r \in Runs : RunStep(r)

Spec == Init /\ [][Next]_vars

\* one invocation of startAnalysis at a time (the next starts when the
\* previous one has returned), any of its awaits may reject
Alone(r) == \A q \in Runs \ {r} : runs[q].pc = "idle"

SoloNext == \E r \in Runs : Alone(r) /\ RunStep(r)

SoloSpec == Init /\ [][SoloNext]_vars

\* one invocation at a time and no await rejects: a sequence of completed
\* analysis recordings
SeqNext ==
    \E r \in Runs :
        /\ Alone(r)
        /\ \/ \E u \in Users : MountEffect(r, u)
           \/ \E u \in Users : RetryAnalysis(r, u)
           \/ Flip(r)
           \/ Insert(r)
           \/ Complete(r)

SeqSpec == Init /\ [][SeqNext]_vars

\* invocations of startAnalysis that overlap in any way, none of whose
\* awaits rejects
OverlapNext ==
    \E r \in Runs :
        \/ \E u \in Users : MountEffect(r, u)
        \/ \E u \in Users : RetryAnalysis(r, u)
        \/ Flip(r)
        \/ Insert(r)
        \/ Complete(r)

OverlapSpec == Init /\ [][OverlapNext]_vars
\* ------------------------------------------------------------ backup codec
\* table.toArray(): the rows in primary-key order
RECURSIVE toArray(_)
toArray(tab) ==
    IF tab = {} THEN <<>>
    ELSE LET first == CHOOSE row \in tab : \A x \in tab : row.id <= x.id
         IN  <<first>> \o toArray(tab \ {first})

\* exportAllData(): the seven toArray() results in the envelope
exportWithoutSettings(d) ==
    [hasData |-> TRUE,
     data |-> [t \in Tables \ {"settings"} |-> toArray(d[t])]]

exportAllData(d) ==
    [hasData |-> TRUE, data |-> [t \in Tables |-> toArray(d[t])]]

\* table.bulkAdd(rows): every row is added under its own key; a row whose
\* key is already in the table is refused (ConstraintError), the others are
\* still added, and the call rejects when any row was refused
RECURSIVE BulkAdd(_, _)
BulkAdd(tab, rows) ==
    IF rows = <<>> THEN [rows |-> tab, failed |-> FALSE]
    ELSE LET row == Head(rows)
             taken == \E x \in tab : x.id = row.id
             rest == BulkAdd(IF taken THEN tab ELSE tab \cup {row}, Tail(rows))
         IN  [rows |-> rest.rows, failed |-> taken \/ rest.failed]

\* db.transaction('rw', ...) whose scope function rejected: the transaction
\* aborts and every table is as it was before the transaction
KeepPartial(before, partial) == partial

Rollback(before, partial) == before

\* table.clear(): every row is deleted (the key generator is not reset)
ClearSkipped(tab) == tab

Clear(tab) == {}

\* importData(backupData), as one 'rw' transaction over the seven tables:
\* clear() each table, then bulkAdd(data.<table> || []) into each
importData(d, gen, doc) ==
    LET cleared == [t \in Tables |-> Clear(d[t])]
        incoming(t) == IF t \in DOMAIN doc.data THEN doc.data[t] ELSE <<>>
        added == [t \in Tables |-> BulkAdd(cleared[t], incoming(t))]
        \* const { data } = backupData; data.users throws when data is undefined
        partial == IF doc.hasData THEN [t \in Tables |-> added[t].rows] ELSE cleared
        rejected == ~doc.hasData \/ \E t \in Tables : added[t].failed
    IN  IF rejected
        THEN [ok |-> FALSE, db |-> Rollback(d, partial), keyGen |-> gen]
        ELSE [ok |-> TRUE, db |-> partial,
              keyGen |-> Max({gen} \cup {row.id : row \in partial.analyses})]

\* the rows a backup document carries for table t: keys n, n-1, .., 1 (not in
\* key order); the analysis with the highest key is the latest one
DocRow(t, i, n) ==
    CASE t = "analyses" -> [id |-> i, userId |-> 1, latest |-> (i = n), version |-> i]
      [] t = "users" -> [id |-> i, role |-> "student"]
      [] t = "chatMessages" -> [id |-> i, threadId |-> 1]
      [] t = "settings" -> [id |-> i]
      [] OTHER -> [id |-> i, userId |-> 1]

DocRows(t, n) == [k \in 1..n |-> DocRow(t, n + 1 - k, n)]

\* backup documents: any subset of the table keys present, n rows in each
GoodDocs ==
    {[hasData |-> TRUE, data |-> [t \in present |-> DocRows(t, n)]] :
        present \in SUBSET Tables, n \in 1..MaxDocRows}

\* every key present, every array empty
EmptyDoc == [hasData |-> TRUE, data |-> [t \in Tables |-> <<>>]]

\* documents in which the rows of one table repeat a primary key
DupDocs ==
    {[hasData |-> TRUE,
      data |-> [t \in Tables |->
                  IF t = bad THEN DocRows(t, n) \o <<DocRow(t, 1, n)>>
                  ELSE DocRows(t, n)]] :
        bad \in Tables, n \in 1..MaxDocRows}

\* a JSON file without a data member
NoDataDoc == [hasData |-> FALSE, data |-> <<>>]

Docs == GoodDocs \cup DupDocs \cup {EmptyDoc, NoDataDoc}

\* await importData(data), then the toast of handleImportData
Import(doc, source) ==
    \E res \in {importData(db, keyGen, doc)} :
        /\ db' = res.db
        /\ keyGen' = res.keyGen
        /\ importOutcome' = [status |-> IF res.ok THEN "ok" ELSE "failed",
                             source |-> source]
        /\ UNCHANGED <<analysisVars, streamVars, credVars, saveVars, roleVars, chatVars>>
        /\ Observe(<<"import", 0>>, Tables)

\* handleImportData: the user picks a backup file
ImportFile(doc) == Import(doc, "file")

\* importData applied to the document exportAllData has just returned
ImportExported == Import(exportAllData(db), "export")

BackupNext ==
    \/ \E doc \in Docs : ImportFile(doc)
    \/ ImportExported

BackupSpec == Init /\ [][BackupNext]_vars

\* the user imports backup files whose data object lacks some table keys
PartialNext == \E doc \in GoodDocs : ImportFile(doc)

PartialSpec == Init /\ [][PartialNext]_vars

\* backup documents whose profiles and analyses were written without their
\* userId: one row in every table whose key is present
OwnerlessRow(t) ==
    CASE t = "analyses" -> [id |-> 1, latest |-> TRUE, version |-> 1]
      [] t \in {"studentProfiles", "professionalProfiles"} -> [id |-> 1]
      [] OTHER -> DocRow(t, 1, 1)

OwnerlessDocs ==
    {[hasData |-> TRUE, data |-> [t \in present |-> <<OwnerlessRow(t)>>]] :
        present \in SUBSET Tables}

\* the user imports such documents: bulkAdd is the insert of every row
OwnerlessNext == \E doc \in OwnerlessDocs : ImportFile(doc)

OwnerlessSpec == Init /\ [][OwnerlessNext]_vars

\* faulty backup documents: several analyses of user 1, every one of them
\* marked latest, the versions rising with the key
CorruptDocs ==
    {[hasData |-> TRUE,
      data |-> [t \in Tables |->
                  IF t = "analyses"
                  THEN [k \in 1..n |-> [DocRow(t, k, n) EXCEPT !.latest = TRUE]]
                  ELSE <<>>]] :
        n \in 2..MaxDocRows}

\* completed analysis recordings one after another, and between them the
\* import of a faulty backup
RepairNext ==
    \/ SeqNext
    \/ \E doc \in CorruptDocs :
           /\ \A r \in Runs : runs[r].pc = "idle"
           /\ ImportFile(doc)

RepairSpec == Init /\ [][RepairNext]_vars

\* ----------------------------------------------------------- stream decoder
\* The body is text; the model cuts it into tokens, and a read delivers any
\* number of whole tokens. "da" "ta: " are the two halves of the prefix
\* 'data: ', "{" .. "}" stand for {"choices":[{"delta":{"content":" .. "}}]},
\* "Hel" and "lo" are pieces of content text, "{bad}" is {not valid json},
\* "event" is a line without the prefix, "NL" is '\n'.
ContentUnits == {"Hel", "lo"}

DataFrame(c) == <<"da", "ta: ", "{">> \o c \o <<"}", "NL">>
DoneFrame == <<"da", "ta: ", "[DONE]", "NL">>
BadFrame == <<"da", "ta: ", "{bad}", "NL">>
NoiseFrame == <<"event", "NL">>

FrameMenu == {DataFrame(<<"Hel">>), DataFrame(<<"lo">>), DataFrame(<<>>),
              DoneFrame, BadFrame, NoiseFrame}

\* the bodies of at most k lines
RECURSIVE BodiesOf(_)
BodiesOf(k) ==
    IF k = 0 THEN {<<>>}
    ELSE LET shorter == BodiesOf(k - 1)
         IN  shorter \cup {b \o f : b \in shorter, f \in FrameMenu}

Bodies == BodiesOf(MaxFrames)

\* chunk.split('\n'): the pieces between the NL tokens
RECURSIVE Split(_, _)
Split(chunk, cur) ==
    IF chunk = <<>> THEN <<cur>>
    ELSE IF Head(chunk) = "NL" THEN <<cur>> \o Split(Tail(chunk), <<>>)
    ELSE Split(Tail(chunk), Append(cur, Head(chunk)))

\* .filter(line => line.trim() !== '')
Lines(chunk) == SelectSeq(Split(chunk, <<>>), LAMBDA line : line # <<>>)

\* line.startsWith('data: ')
StartsWithData(line) == Len(line) >= 2 /\ line[1] = "da" /\ line[2] = "ta: "

\* JSON.parse(data) and parsed.choices[0]?.delta?.content || '': ok is
\* FALSE when the try block throws
ParseUnchecked(data) == [ok |-> TRUE, content |-> data]

ParseDelta(data) ==
    IF /\ Len(data) >= 2
       /\ data[1] = "{"
       /\ data[Len(data)] = "}"
       /\ \A i \in 2..(Len(data) - 1) : data[i] \in ContentUnits
    THEN [ok |-> TRUE, content |-> SubSeq(data, 2, Len(data) - 1)]
    ELSE [ok |-> FALSE, content |-> <<>>]

\* fullContent += content
AccumulateInFront(full, content) == content \o full

Accumulate(full, content) == full \o content

\* onStream?.(fullContent)
onStreamDelta(full, content) == content

onStreamArg(full, content) == full

\* the body of the for loop (lines 173-187) on one line
ProcessLine(st, line) ==
    IF ~StartsWithData(line) THEN st
    ELSE LET data == SubSeq(line, 3, Len(line))      \* line.slice(6)
             delta == ParseDelta(data)
             full == Accumulate(st.fullContent, delta.content)
         IN  IF data = <<"[DONE]">>                  \* continue
             THEN IF st.atDone.seen THEN st
                  ELSE [st EXCEPT !.atDone = [seen |-> TRUE,
                                              content |-> st.fullContent,
                                              calls |-> Len(st.calls)]]
             ELSE IF ~delta.ok THEN st               \* catch (e) { }
             ELSE IF delta.content # <<>>            \* if (content)
             THEN [st EXCEPT !.fullContent = full,
                             !.calls = Append(st.calls, onStreamArg(full, delta.content)),
                             !.parsed = Append(st.parsed, delta.content)]
             ELSE [st EXCEPT !.parsed = Append(st.parsed, delta.content)]

RECURSIVE ProcessLines(_, _)
ProcessLines(st, lines) ==
    IF lines = <<>> THEN st
    ELSE ProcessLines(ProcessLine(st, Head(lines)), Tail(lines))

\* one turn of the while loop on the chunk a read delivered (lines 169-188)
ProcessChunk(st, chunk) == ProcessLines(st, Lines(chunk))

FreshDecoder == [fullContent |-> <<>>, calls |-> <<>>, parsed |-> <<>>,
                 atDone |-> [seen |-> FALSE, content |-> <<>>, calls |-> 0]]

\* handleStreamResponse(body, onStream) has been called
InitStream ==
    /\ body \in Bodies
    /\ pos = 0
    /\ pcStream = "reading"
    /\ fullContent = FreshDecoder.fullContent
    /\ calls = FreshDecoder.calls
    /\ result = <<>>
    /\ parsed = FreshDecoder.parsed
    /\ atDone = FreshDecoder.atDone

\* reader.read() resolves with the next n tokens of the body
Read(n) ==
    /\ pcStream = "reading"
    /\ pos + n <= Len(body)
    /\ \E st \in {ProcessChunk([fullContent |-> fullContent, calls |-> calls,
                               parsed |-> parsed, atDone |-> atDone],
                              SubSeq(body, pos + 1, pos + n))} :
          /\ fullContent' = st.fullContent
          /\ calls' = st.calls
          /\ parsed' = st.parsed
          /\ atDone' = st.atDone
    /\ pos' = pos + n
    /\ UNCHANGED <<body, pcStream, result, db, keyGen, analysisVars, backupVars, credVars, saveVars, otherVars>>

\* reader.read() resolves with done: break, releaseLock, return fullContent
ReadDoneAfterSentinel ==
    /\ pcStream = "reading"
    /\ pos = Len(body)
    /\ atDone.seen
    /\ pcStream' = "returned"
    /\ result' = fullContent
    /\ UNCHANGED <<body, pos, fullContent, calls, parsed, atDone,
                   db, keyGen, analysisVars, backupVars, credVars, saveVars, otherVars>>

ReadDone ==
    /\ pcStream = "reading"
    /\ pos = Len(body)
    /\ pcStream' = "returned"
    /\ result' = fullContent
    /\ UNCHANGED <<body, pos, fullContent, calls, parsed, atDone,
                   db, keyGen, analysisVars, backupVars, credVars, saveVars, otherVars>>

\* reader.read() rejects: finally releaseLock, the error propagates
ReadError ==
    /\ pcStream = "reading"
    /\ pcStream' = "threw"
    /\ UNCHANGED <<body, pos, fullContent, calls, result, parsed, atDone,
                   db, keyGen, analysisVars, backupVars, credVars, saveVars, otherVars>>

StreamInit ==
    /\ InitStore /\ InitAnalysis /\ InitBackup /\ InitStream /\ InitCred /\ InitSave
    /\ InitOther

StreamNext ==
    \/ \E n \in 1..Len(body) : Read(n)
    \/ ReadDone
    \/ ReadError

StreamSpec == StreamInit /\ [][StreamNext]_vars

\* the underlying stream delivers its bytes and then reports completion: no
\* read rejects, and a read that can resolve does resolve
DeliverNext ==
    \/ \E n \in 1..Len(body) : Read(n)
    \/ ReadDone

DeliverSpec == StreamInit /\ [][DeliverNext]_vars /\ WF_vars(DeliverNext)

\* -------------------------------------------------------------- credential
\* useSettingsStore.updateSetting('openaiKeyStored', value): a no-op while
\* settings is null
updateSetting(s, value) ==
    IF s # None THEN [s EXCEPT !.openaiKeyStored = value] ELSE s

\* getApiKey() in run w: the session item when it is set; the encrypted
\* branch returns null whether or not the item is there (decryption is a TODO)
getApiKey(w) ==
    IF sessionStorage[w] # Null THEN sessionStorage[w]
    ELSE IF settings # None /\ settings.openaiKeyStored = "encrypted_local"
         THEN IF localStorage[w] # Null THEN Null ELSE Null
         ELSE Null

\* setApiKey(key, persistent); keys[w] is the key run w is given
SetApiKey(keys, persistent) ==
    /\ IF persistent
       THEN /\ localStorage' = keys
            /\ settings' = updateSetting(settings, "encrypted_local")
            /\ UNCHANGED sessionStorage
       ELSE /\ sessionStorage' = keys
            /\ settings' = updateSetting(settings, "session")
            /\ UNCHANGED localStorage
    /\ openaiKey' = keys
    /\ lastCred' = [op |-> "set", persistent |-> persistent, key |-> keys]
    /\ loggedOut' = FALSE
    /\ UNCHANGED <<isKeyValid, currentUser, exported,
                   db, keyGen, analysisVars, backupVars, streamVars, saveVars, otherVars>>

\* clearApiKey()
ClearApiKey ==
    /\ sessionStorage' = [w \in Twins |-> Null]
    /\ localStorage' = [w \in Twins |-> Null]
    /\ openaiKey' = [w \in Twins |-> ""]
    /\ isKeyValid' = FALSE
    /\ settings' = updateSetting(settings, "none")
    /\ lastCred' = [op |-> "clear", persistent |-> FALSE, key |-> [w \in Twins |-> Null]]
    /\ UNCHANGED <<currentUser, exported, loggedOut,
                   db, keyGen, analysisVars, backupVars, streamVars, saveVars, otherVars>>

\* handleTestApiKey: setKeyValid(await testApiKey(tempApiKey))
TestApiKey(valid) ==
    /\ isKeyValid' = valid
    /\ UNCHANGED <<sessionStorage, localStorage, openaiKey, settings, currentUser,
                   exported, lastCred, loggedOut,
                   db, keyGen, analysisVars, backupVars, streamVars, saveVars, otherVars>>

\* useSettingsStore.setSettings(settings)
SetSettings(stored) ==
    /\ settings' = [openaiKeyStored |-> stored]
    /\ UNCHANGED <<sessionStorage, localStorage, openaiKey, isKeyValid, currentUser,
                   exported, lastCred, loggedOut,
                   db, keyGen, analysisVars, backupVars, streamVars, saveVars, otherVars>>

\* useAuthStore.setCurrentUser(user)
SetCurrentUser(u) ==
    /\ currentUser' = u
    /\ UNCHANGED <<sessionStorage, localStorage, openaiKey, isKeyValid, settings,
                   exported, lastCred, loggedOut,
                   db, keyGen, analysisVars, backupVars, streamVars, saveVars, otherVars>>

\* useAuthStore.logout(): set({ currentUser: null, isAuthenticated: false,
\* isGuest: false }) and nothing else
Logout ==
    /\ currentUser # 0
    /\ currentUser' = 0
    /\ loggedOut' = TRUE
    /\ UNCHANGED <<sessionStorage, localStorage, openaiKey, isKeyValid, settings,
                   exported, lastCred,
                   db, keyGen, analysisVars, backupVars, streamVars, saveVars, otherVars>>

\* handleExportData in run w: JSON.stringify(await exportAllData())
ExportWithKey(w) ==
    [hasData |-> TRUE, data |-> exportAllData(db).data, openaiKey |-> openaiKey[w]]

ExportFor(w) == exportAllData(db)

HandleExportData ==
    /\ exported' = [w \in Twins |-> ExportFor(w)]
    /\ UNCHANGED <<sessionStorage, localStorage, openaiKey, isKeyValid, settings,
                   currentUser, lastCred, loggedOut,
                   db, keyGen, analysisVars, backupVars, streamVars, saveVars, otherVars>>

\* the backups imported between the credential calls: every table with one
\* row, and every table empty
CredDocs == {[hasData |-> TRUE, data |-> [t \in Tables |-> DocRows(t, 1)]], EmptyDoc}

CredNext ==
    \/ \E keys \in [Twins -> Keys], persistent \in BOOLEAN : SetApiKey(keys, persistent)
    \/ ClearApiKey
    \/ \E valid \in BOOLEAN : TestApiKey(valid)
    \/ \E stored \in {"none", "session", "encrypted_local"} : SetSettings(stored)
    \/ \E u \in Users : SetCurrentUser(u)
    \/ Logout
    \/ HandleExportData
    \/ \E doc \in CredDocs : ImportFile(doc)

CredSpec == Init /\ [][CredNext]_vars

\* ------------------------------------------------------------ saveProfile
\* form.watch(() => debouncedSave()): clearTimeout, then setTimeout(2000)
DebouncedSave ==
    /\ saveTimer' = TRUE
    /\ UNCHANGED <<saves, saving, profileKeyGen,
                   db, keyGen, analysisVars, backupVars, streamVars, credVars, otherVars>>

\* saveProfile(silent): the guard of line 650 passed, setSaving(true), and
\* the function is on its way to the lookup
BeginSave(s, silent) ==
    /\ saves[s].pc = "idle"
    /\ currentUser # 0
    /\ saves' = [saves EXCEPT ![s] = [IdleSave EXCEPT !.pc = "begun",
                                                      !.user = currentUser,
                                                      !.table = ProfileTable(isStudent(currentUser)),
                                                      !.silent = silent]]
    /\ saving' = TRUE
    /\ UNCHANGED <<profileKeyGen, db, keyGen, analysisVars, backupVars, streamVars,
                   credVars, otherVars>>

\* the timeout of debouncedSave fires: saveProfile(true)
TimerSave(s) ==
    /\ saveTimer
    /\ saveTimer' = FALSE
    /\ BeginSave(s, TRUE)

\* 'Save Draft' (onClick={() => saveProfile()}) and 'Continue' on the last
\* step (handleNext): neither button is disabled while a save is in flight
ManualSave(s) ==
    /\ UNCHANGED saveTimer
    /\ BeginSave(s, FALSE)

\* existingProfile = await db.<table>.where('userId').equals(id).first()
LookupProfile(s) ==
    /\ saves[s].pc = "begun"
    /\ LET mine == {row \in db[saves[s].table] : row.userId = saves[s].user}
       IN  saves' = [saves EXCEPT ![s].pc = "looked",
                                  ![s].existing = IF mine = {} THEN 0
                                                  ELSE Min({row.id : row \in mine})]
    /\ UNCHANGED <<saving, saveTimer, profileKeyGen,
                   db, keyGen, analysisVars, backupVars, streamVars, credVars, otherVars>>

\* if (existingProfile) await db.<table>.update(existingProfile.id, profile)
\* else await db.<table>.add(profile)
WriteProfile(s) ==
    /\ saves[s].pc = "looked"
    /\ LET t == saves[s].table
       IN  IF saves[s].existing # 0
           THEN /\ db' = [db EXCEPT ![t] =
                              {IF row.id = saves[s].existing
                               THEN [row EXCEPT !.userId = saves[s].user]
                               ELSE row : row \in db[t]}]
                /\ UNCHANGED profileKeyGen
           ELSE /\ db' = [db EXCEPT ![t] =
                              db[t] \cup {[id |-> profileKeyGen[t] + 1,
                                           userId |-> saves[s].user]}]
                /\ profileKeyGen' = [profileKeyGen EXCEPT ![t] = profileKeyGen[t] + 1]
    /\ saves' = [saves EXCEPT ![s].pc = "written"]
    /\ UNCHANGED <<saving, saveTimer,
                   keyGen, analysisVars, backupVars, streamVars, credVars, roleVars, chatVars>>
    /\ Observe(<<"save", s>>, {saves[s].table})

\* the lookup or the write rejects: catch (error) { console.error, toast }
FailSave(s) ==
    /\ saves[s].pc \in {"begun", "looked"}
    /\ saves' = [saves EXCEPT ![s].pc = "failed"]
    /\ UNCHANGED <<saving, saveTimer, profileKeyGen,
                   db, keyGen, analysisVars, backupVars, streamVars, credVars, otherVars>>

\* setProfile(...), toast; finally { setSaving(false) }
EndSave(s) ==
    /\ saves[s].pc \in {"written", "failed"}
    /\ saves' = [saves EXCEPT ![s] = IdleSave]
    /\ saving' = FALSE
    /\ UNCHANGED <<saveTimer, profileKeyGen,
                   db, keyGen, analysisVars, backupVars, streamVars, credVars, otherVars>>

SaveNext ==
    \/ \E u \in Users : SetCurrentUser(u)
    \/ DebouncedSave
    \/ \E s \in Saves : TimerSave(s)
    \/ \E s \in Saves : ManualSave(s)
    \/ \E s \in Saves : LookupProfile(s)
    \/ \E s \in Saves : WriteProfile(s)
    \/ \E s \in Saves : FailSave(s)
    \/ \E s \in Saves : EndSave(s)

SaveSpec == Init /\ [][SaveNext]_vars

\* ------------------------------------------------------------- properties
RowsOf(u) == {row \in db.analyses : row.userId = u}
LatestOf(u) == WhereUserLatest(db.analyses, u)

\* no invocation stands between its modify and its add
NoRecordingOpen == \A r \in Runs : runs[r].pc # "flipped"

\* C1: after any sequence of completed recordings, every user with a recorded
\* analysis has exactly one row with latest = true, and that row's version is
\* the maximum among the user's rows.
C1_OneLatestPerUser ==
    NoRecordingOpen =>
        \A u \in Users :
            RowsOf(u) # {} =>
                /\ Cardinality(LatestOf(u)) = 1
                /\ \A row \in LatestOf(u) :
                       row.version = Max({x.version : x \in RowsOf(u)})

C1_Witness ==
    /\ \A r \in Runs : runs[r].pc = "idle"
    /\ Cardinality(RowsOf(1)) >= 2
    /\ Cardinality(RowsOf(2)) >= 1

\* C2: while a recording for user u stands between its modify and its add,
\* and u had a latest row when the recording began, a reader finds exactly
\* one row of u with latest = true (never none, never two).
C2_ReaderSeesOneLatest ==
    \A r \in Runs :
        (runs[r].pc = "flipped" /\ WhereUserLatest(runs[r].before, runs[r].user) # {})
            => /\ Cardinality(LatestOf(runs[r].user)) = 1
               /\ getLatestAnalysis(runs[r].user) # None

\* C3: the k-th analysis recorded for a user has version k, whatever is
\* recorded for other users in between (rows of a user in key order).
C3_VersionCounts ==
    \A u \in Users :
        \A row \in RowsOf(u) :
            row.version = Cardinality({x \in RowsOf(u) : x.id <= row.id})

\* C4: when the modify or the add of a recording rejects, the analyses table
\* ends exactly as it was when the recording began.
C4_FailedRecordingRollsBack ==
    \A r \in Runs :
        (runs[r].pc = "failed" /\ runs[r].stage \in {"flip", "insert"})
            => db.analyses = runs[r].before

\* C13: when a recording for user u has inserted its row, that row is the
\* only row of u with latest = true, however many rows of u were marked
\* latest when the recording began (a faulty import leaves several).
C13_RecordingRepairsLatest ==
    \A r \in Runs :
        runs[r].pc = "added" =>
            /\ \E row \in RowsOf(runs[r].user) : row.id = keyGen /\ row.latest
            /\ \A row \in RowsOf(runs[r].user) : row.latest => row.id = keyGen

C13_Witness ==
    \E r \in Runs :
        /\ runs[r].pc = "added"
        /\ Cardinality(WhereUserLatest(runs[r].before, runs[r].user)) >= 2
        /\ Cardinality(RowsOf(runs[r].user)) >= 3

\* C14: getLatestAnalysis(u) is none when u has no row with latest = true,
\* otherwise a row of u with latest = true, and among several such rows the
\* one with the highest version.
C14_GetLatestPrefersHighestVersion ==
    \A u \in Users :
        LET marked == {row \in RowsOf(u) : row.latest}
            got == getLatestAnalysis(u)
        IN  IF marked = {} THEN got = None
            ELSE /\ got \in marked
                 /\ got.version = Max({row.version : row \in marked})

\* C5: when a bulk-insert of importData fails for any table, every one of the
\* seven tables holds exactly the rows it held before the call.
C5_FailedImportKeepsTables ==
    [][importOutcome'.status = "failed" => db' = db]_vars

C5_Witness ==
    /\ importOutcome.status = "failed"
    /\ Cardinality({t \in Tables : db[t] # {}}) >= 2
    /\ Cardinality(db.analyses) >= 2

\* C6: importData on the document exportAllData has just returned succeeds
\* and leaves every table with the same set of rows.
C6_RoundTrip ==
    [][importOutcome'.source = "export"
          => (importOutcome'.status = "ok" /\ db' = db)]_vars

C6_Witness ==
    /\ importOutcome = [status |-> "ok", source |-> "export"]
    /\ \A t \in Tables : Cardinality(db[t]) >= 2

\* the rows of an array of a backup document
RowSet(rows) == {rows[k] : k \in 1..Len(rows)}

\* C15: whatever the tables hold, importData of a document whose data
\* object lacks any subset of the seven table keys succeeds, leaves every
\* table whose key is absent empty, and every table whose key is present
\* with exactly the document's rows for it.
C15_AbsentKeysImportAsEmpty ==
    \A doc \in GoodDocs :
        \A res \in {importData(db, keyGen, doc)} :
            /\ res.ok
            /\ res.db = [t \in Tables |->
                            IF t \in DOMAIN doc.data THEN RowSet(doc.data[t]) ELSE {}]

C15_Witness ==
    /\ importOutcome = [status |-> "ok", source |-> "file"]
    /\ db.users = {}
    /\ db.settings = {}
    /\ Cardinality(db.analyses) = 2
    /\ Cardinality(db.chatMessages) = 2
    /\ db.chatThreads = {}

\* the concatenation of a sequence of text fragments
RECURSIVE Concat(_)
Concat(frags) == IF frags = <<>> THEN <<>> ELSE Head(frags) \o Concat(Tail(frags))

\* C7: the accumulated and the returned text are the concatenation, in
\* arrival order, of the fragments of exactly the lines that parsed.
C7_TextIsConcatOfParsed ==
    /\ fullContent = Concat(parsed)
    /\ pcStream = "returned" => result = Concat(parsed)

C7_Witness ==
    /\ pcStream = "returned"
    /\ parsed = <<<<"Hel">>, <<"lo">>>>
    /\ result = <<"Hel", "lo">>
    /\ Len(body) > 12

\* what the decoder makes of the whole body delivered by a single read
OneRead == ProcessChunk(FreshDecoder, body)

\* C8: the returned text and the callback arguments are those of the same
\* bytes arriving in a single read, however the body was cut into reads.
C8_CutIndependent ==
    pcStream = "returned" => (result = OneRead.fullContent /\ calls = OneRead.calls)

\* C9: once a [DONE] line has been seen, nothing that arrives later changes
\* the accumulated text or triggers the callback.
C9_NothingAfterDone ==
    atDone.seen => (fullContent = atDone.content /\ Len(calls) = atDone.calls)

\* C10 as claimed: one callback per line that parsed, the empty fragments
\* included, each with the text accumulated up to and including that line.
C10_CallbackPerParsedFrame ==
    /\ Len(calls) = Len(parsed)
    /\ \A k \in 1..Len(calls) : calls[k] = Concat(SubSeq(parsed, 1, k))

\* C10 amended: one callback per line that parsed with a non-empty fragment,
\* in line order, each with the text accumulated up to and including that
\* line; a line with an empty fragment triggers no callback.
NonEmpty(frags) == SelectSeq(frags, LAMBDA f : f # <<>>)

C10_CallbackPerNonEmptyFragment ==
    /\ Len(calls) = Len(NonEmpty(parsed))
    /\ \A k \in 1..Len(calls) : calls[k] = Concat(SubSeq(NonEmpty(parsed), 1, k))
    /\ (body = DataFrame(<<"Hel">>) \o DataFrame(<<"lo">>) \o DoneFrame
           /\ pcStream = "returned" /\ result = <<"Hel", "lo">>)
          => calls = <<<<"Hel">>, <<"Hel", "lo">>>>

C10_Witness ==
    /\ pcStream = "returned"
    /\ parsed = <<<<"Hel">>, <<>>, <<"lo">>>>
    /\ calls = <<<<"Hel">>, <<"Hel", "lo">>>>
    /\ result = <<"Hel", "lo">>

\* a line that is a whole data frame with a JSON payload, and its fragment
IsDataLine(line) ==
    \E f \in FrameMenu \ {DoneFrame, BadFrame, NoiseFrame} : f = line \o <<"NL">>

FragmentOf(line) == SubSeq(line, 4, Len(line) - 1)

FragmentsOf(lines) ==
    LET good == SelectSeq(lines, IsDataLine)
    IN  [k \in 1..Len(good) |-> FragmentOf(good[k])]

\* C11: in every read, the lines without the prefix 'data: ' and the lines
\* whose payload is not valid JSON raise no error, add nothing to the text
\* and trigger no callback, and every valid frame of the read, before or
\* after them, is still appended.
C11_MalformedLinesSkipped ==
    [][pos' # pos =>
          LET frags == FragmentsOf(Lines(SubSeq(body, pos + 1, pos')))
          IN  /\ pcStream' = "reading"
              /\ fullContent' = fullContent \o Concat(frags)
              /\ Len(calls') = Len(calls) + Len(NonEmpty(frags))]_vars

C11_Witness ==
    /\ body = DataFrame(<<"Hel">>) \o BadFrame \o DataFrame(<<"lo">>)
    /\ pos = Len(body)
    /\ pcStream = "returned"
    /\ result = <<"Hel", "lo">>
    /\ calls = <<<<"Hel">>, <<"Hel", "lo">>>>

\* C12: when the stream reports completion, handleStreamResponse returns
\* the text accumulated so far, whether or not a [DONE] line was seen, and
\* it does return whenever the stream delivers its bytes and reports
\* completion.
C12_EndOfStreamReturns ==
    /\ [](pcStream = "returned" => result = fullContent)
    /\ <>(pcStream = "returned")

C12_Witness ==
    /\ pcStream = "returned"
    /\ ~atDone.seen
    /\ result = <<"Hel", "lo">>
    /\ parsed = <<<<"Hel">>, <<"lo">>>>
    /\ Len(body) = 12

C18_SlotsMutuallyExclusive ==
    \A w \in Twins : ~(sessionStorage[w] # Null /\ localStorage[w] # Null)

\* C19: after setApiKey(k, persistent), with either value of persistent,
\* getApiKey returns k until the next setApiKey or clearApiKey.
C19_GetReturnsLastSaved ==
    lastCred.op = "set" => \A w \in Twins : getApiKey(w) = lastCred.key[w]

\* C20: after logout() or clearApiKey(), and until the next setApiKey, both
\* credential slots are empty and getApiKey returns null.
C20_ClearedOnLogoutAndClear ==
    (loggedOut \/ lastCred.op = "clear") =>
        \A w \in Twins :
            /\ sessionStorage[w] = Null
            /\ localStorage[w] = Null
            /\ getApiKey(w) = Null

\* C17: whatever saves were made for a user, the debounced silent save and
\* the manual saves overlapping included, each profile table holds at most
\* one row with that userId.
C17_OneProfilePerUserAndRole ==
    \A t \in ProfileTables, u \in Users :
        Cardinality({row \in db[t] : row.userId = u}) <= 1

\* C22: every write to a table is made by an operation the caller started
\* himself, never by the saveProfile(true) that the timeout of the debounced
\* auto-save starts on its own.
C22_NoTimerWrites ==
    [][db' # db =>
          \A s \in Saves :
              (saves[s].pc = "looked" /\ saves'[s].pc = "written") => ~saves[s].silent]_vars

\* C26: in every step of a recording an existing analysis row keeps its
\* key, userId and version, its latest flag can only go from true to false,
\* and only rows of the user whose recording made the step are changed.
C26_RowsOnlyLoseLatest ==
    [][\A row \in db.analyses :
          \E new \in db'.analyses :
              /\ new.id = row.id
              /\ new.userId = row.userId
              /\ new.version = row.version
              /\ new.latest => row.latest
              /\ new # row =>
                     \E r \in Runs : runs'[r] # runs[r] /\ runs[r].user = row.userId]_vars

C26_Witness ==
    \E r \in Runs :
        /\ runs[r].pc = "flipped"
        /\ WhereUserLatest(runs[r].before, runs[r].user) # {}
        /\ WhereUserLatest(db.analyses, runs[r].user) = {}
        /\ \E row \in db.analyses : row.userId # runs[r].user /\ row.latest

\* C27: once overlapping recordings for the same user have all completed,
\* exactly one analysis row of that user has latest = true.
C27_OverlapLeavesOneLatest ==
    (\A r \in Runs : runs[r].pc = "idle") =>
        \A u \in Users :
            RowsOf(u) # {} => Cardinality({row \in RowsOf(u) : row.latest}) = 1

\* C30: a run whose provider call or response parsing fails makes no step
\* that changes a table or the in-memory analysis, and its catch / finally
\* step leaves isAnalyzing false.
C30_FailedGenerationChangesNothing ==
    [][\A r \in Runs :
          /\ ((runs[r].pc = "idle" /\ runs'[r].pc = "running")
                 \/ (runs'[r].pc = "failed" /\ runs'[r].stage = "generate")
                 \/ (runs[r].pc = "failed" /\ runs[r].stage = "generate"))
                => (db' = db /\ keyGen' = keyGen /\ analysis' = analysis)
          /\ (runs[r].pc = "failed" /\ runs[r].stage = "generate" /\ runs'[r].pc = "idle")
                => isAnalyzing' = FALSE]_vars

C30_Witness ==
    \E r \in Runs :
        /\ runs[r].pc = "failed"
        /\ runs[r].stage = "generate"
        /\ isAnalyzing
        /\ analysis # None
        /\ Cardinality(RowsOf(runs[r].user)) >= 1

\* C25: the insert of a profile or an analysis without userId adds no row,
\* so neither the profile tables nor the analyses table ever hold a row
\* that has no userId.
C25_NoRowWithoutOwner ==
    \A t \in ProfileTables \cup {"analyses"} :
        \A row \in db[t] : "userId" \in DOMAIN row

\* ------------------------------------------------------------------
\* Role selection (OnboardingRole.tsx) on top of db.users
\* ------------------------------------------------------------------

Roles == {"student", "professional"}

NoRoleCall == [status |-> "none", found |-> FALSE, before |-> "none"]

\* Dexie Table.update(key, changes): the row under the key gets the changes;
\* with no row under the key nothing is written and the promise still resolves
Update(tab, key, role) ==
    {IF row.id = key THEN [row EXCEPT !.role = role, !.updatedAt = 1] ELSE row :
        row \in tab}

\* AuthPage handleCreateProfile / handleGuestContinue: db.users.add of a user
\* with role 'student', then setCurrentUser({...user, id})
CreateUser(guest) ==
    /\ usersKeyGen < MaxUsers
    /\ usersKeyGen' = usersKeyGen + 1
    /\ db' = [db EXCEPT !["users"] = @ \cup
                {[id |-> usersKeyGen + 1, name |-> IF guest THEN "Guest" ELSE "n",
                  role |-> "student", isGuest |-> guest, updatedAt |-> 0]}]
    /\ currentUser' = usersKeyGen + 1
    /\ currentRole' = "student"
    /\ roleOutcome' = NoRoleCall
    /\ UNCHANGED <<keyGen, analysisVars, backupVars, streamVars, saveVars,
                   sessionStorage, localStorage, openaiKey, isKeyValid, settings,
                   exported, lastCred, loggedOut, chatVars>>
    /\ Observe(<<"user", 0>>, {"users"})

\* handleRoleSelection, the awaited update resolves: the store's user takes the
\* role and the page navigates on
HandleRoleSelection(role) ==
    /\ currentUser # 0
    /\ db' = [db EXCEPT !["users"] = Update(@, currentUser, role)]
    /\ currentRole' = role
    /\ roleOutcome' = [status |-> "ok",
                       found |-> \E row \in db["users"] : row.id = currentUser,
                       before |-> currentRole]
    /\ UNCHANGED <<keyGen, usersKeyGen, analysisVars, backupVars, streamVars,
                   saveVars, credVars, chatVars>>
    /\ Observe(<<"user", 0>>, {"users"})

\* handleRoleSelection, the awaited update rejects (the database cannot be
\* opened): the catch block logs and nothing else happens
RoleSelectionRejected(role) ==
    /\ currentUser # 0
    /\ roleOutcome' = [status |-> "failed",
                       found |-> \E row \in db["users"] : row.id = currentUser,
                       before |-> currentRole]
    /\ UNCHANGED <<db, keyGen, currentRole, usersKeyGen, analysisVars, backupVars,
                   streamVars, saveVars, credVars, chatVars, exportVars>>

RoleNext ==
    \/ \E guest \in BOOLEAN : CreateUser(guest)
    \/ \E role \in Roles : HandleRoleSelection(role)
    \/ \E role \in Roles : RoleSelectionRejected(role)
    \/ ImportFile(EmptyDoc)

RoleSpec == Init /\ [][RoleNext]_vars

\* C24: a role selection for a user whose id is not in db.users is surfaced
\* as a failure and leaves the in-memory user's role as it was; a selection
\* for a stored user changes that row's role and updatedAt only
C24_AbsentIdFailsAndChangesNothing ==
    /\ (roleOutcome.status # "none" /\ ~roleOutcome.found) =>
            /\ roleOutcome.status = "failed"
            /\ currentRole = roleOutcome.before
    /\ \A row \in db["users"] :
            /\ row.name = (IF row.isGuest THEN "Guest" ELSE "n")
            /\ row.updatedAt = 0 => row.role = "student"

\* ------------------------------------------------------------------
\* getChatMessages (part_002) over db.chatMessages
\* ------------------------------------------------------------------

Threads == {1, 2}
Times == {1, 2}

\* Array.prototype.sort with the comparator a.createdAt - b.createdAt: the
\* sort is stable, an element goes behind every element that is not later
RECURSIVE InsertByCreatedAt(_, _)
InsertByCreatedAt(sorted, row) ==
    IF sorted = <<>> THEN <<row>>
    ELSE IF sorted[Len(sorted)].createdAt - row.createdAt <= 0
         THEN Append(sorted, row)
         ELSE Append(InsertByCreatedAt(SubSeq(sorted, 1, Len(sorted) - 1), row),
                     sorted[Len(sorted)])

RECURSIVE SortFrom(_, _)
SortFrom(sorted, rest) ==
    IF rest = <<>> THEN sorted
    ELSE SortFrom(InsertByCreatedAt(sorted, Head(rest)), Tail(rest))

\* the array as toArray returned it
Unsorted(arr) == arr

SortByCreatedAt(arr) == SortFrom(<<>>, arr)

\* getChatMessages(threadId): where('threadId').equals(threadId).toArray()
\* walks the threadId index, equal index keys in primary-key order; then sort
getChatMessages(d, threadId) ==
    SortByCreatedAt(toArray({row \in d["chatMessages"] : row.threadId = threadId}))

\* a message of thread 1 created at any instant, or the message of thread 2
ChatRowKinds ==
    {[threadId |-> 1, createdAt |-> t] : t \in Times} \cup
    {[threadId |-> 2, createdAt |-> 1]}

\* backups that hold chat messages only: n rows listed from the highest id
\* down, each of any kind
ChatDocsOf(n) ==
    {[hasData |-> TRUE,
      data |-> [t \in {"chatMessages"} |->
                  [k \in 1..n |-> [id |-> n + 1 - k, threadId |-> kind[k].threadId,
                                   createdAt |-> kind[k].createdAt]]]] :
        kind \in [1..n -> ChatRowKinds]}

ChatDocs == UNION {ChatDocsOf(n) : n \in 1..MaxMsgs}

ChatLogNext == \E doc \in ChatDocs : ImportFile(doc)

ChatLogSpec == Init /\ [][ChatLogNext]_vars

\* the rows getChatMessages has to return for a thread
ThreadRows(threadId) == {row \in db["chatMessages"] : row.threadId = threadId}

\* res lists exactly the rows of the thread, each once
ListsThread(res, threadId) ==
    /\ {res[i] : i \in 1..Len(res)} = ThreadRows(threadId)
    /\ Len(res) = Cardinality(ThreadRows(threadId))

\* C23 as stated: getChatMessages returns exactly the rows of the thread,
\* each once, every row created strictly before the row behind it
C23_StrictlyAscending ==
    \A t \in Threads : \A res \in {getChatMessages(db, t)} :
        /\ ListsThread(res, t)
        /\ \A i, j \in 1..Len(res) : i < j => res[i].createdAt < res[j].createdAt

\* C23 amended: getChatMessages returns exactly the rows of the thread, each
\* once, no row created later than the row behind it, and rows created at the
\* same instant in primary-key order
C23_AscendingTiesByKey ==
    \A t \in Threads : \A res \in {getChatMessages(db, t)} :
        /\ ListsThread(res, t)
        /\ \A i, j \in 1..Len(res) : i < j =>
              \/ res[i].createdAt < res[j].createdAt
              \/ res[i].createdAt = res[j].createdAt /\ res[i].id < res[j].id

\* a thread holds a row created before a row with a lower id and two rows
\* created at the same instant, next to a row of another thread
C23_Witness ==
    /\ \E a, b \in ThreadRows(1) : a.id < b.id /\ a.createdAt > b.createdAt
    /\ \E a, b \in ThreadRows(1) : a.id # b.id /\ a.createdAt = b.createdAt
    /\ ThreadRows(2) # {}
    /\ Len(getChatMessages(db, 1)) = Cardinality(ThreadRows(1))

\* ------------------------------------------------------------------
\* ChatPage (ChatPage.tsx) on top of useChatStore (part_001)
\* ------------------------------------------------------------------

Content(kind, n) == [kind |-> kind, n |-> n]

\* addMessage: the message goes to the end of the list
addMessage(msgs, message) == Append(msgs, message)

\* updateLastMessage: the content of whatever message is last is replaced
updateLastMessage(msgs, content) ==
    IF Len(msgs) > 0 THEN [msgs EXCEPT ![Len(msgs)].content = content]
    ELSE msgs

\* a handleSendMessage that does not look at isStreaming
NeverBlocked == FALSE

\* handleSendMessage line 61: the isStreaming half of the early return (the
\* input is taken to be non-blank)
Blocked == isStreaming

\* the store after one completed recording for user 1
AnalysedStore ==
    /\ db = [t \in Tables |->
               IF t = "analyses" THEN Add({}, 0, analysisRecord(1)) ELSE {}]
    /\ keyGen = 1
    /\ runs = [r \in Runs |-> IdleRun]
    /\ analysis = analysisRecord(1)
    /\ isAnalyzing = FALSE

ChatInit ==
    /\ (InitStore /\ InitAnalysis) \/ AnalysedStore
    /\ InitBackup /\ NoStream /\ InitCred /\ InitSave /\ InitOther

\* ChatPage is mounted: isInitialized starts false and the first effect adds
\* the welcome message when there is an analysis
MountChat ==
    /\ ~mounted
    /\ Len(messages) < MaxMessages
    /\ mounted' = TRUE
    /\ IF analysis # None
       THEN /\ messages' = addMessage(messages,
                              [role |-> "assistant", content |-> Content("welcome", 0),
                               isStreaming |-> FALSE])
            /\ isInitialized' = TRUE
       ELSE UNCHANGED <<messages, isInitialized>>
    /\ UNCHANGED <<isStreaming, exchange, db, keyGen, analysisVars, backupVars,
                   streamVars, credVars, saveVars, roleVars, exportVars>>

\* the user navigates away: the component and its local state are gone, the
\* store and the running handleSendMessage are not
UnmountChat ==
    /\ mounted
    /\ mounted' = FALSE
    /\ isInitialized' = FALSE
    /\ UNCHANGED <<messages, isStreaming, exchange, db, keyGen, analysisVars,
                   backupVars, streamVars, credVars, saveVars, roleVars, exportVars>>

\* handleSendMessage up to the await of chatWithAssistant
SendMessage(e) ==
    /\ mounted
    /\ exchange[e].pc = "idle"
    /\ ~Blocked
    /\ isKeyValid
    /\ Len(messages) + 2 <= MaxMessages
    /\ messages' = addMessage(addMessage(messages,
                        [role |-> "user", content |-> Content("user", 0),
                         isStreaming |-> FALSE]),
                        [role |-> "assistant", content |-> Content("empty", 0),
                         isStreaming |-> TRUE])
    /\ isStreaming' = TRUE
    /\ exchange' = [exchange EXCEPT ![e] = [pc |-> "streaming",
                                            placeholder |-> Len(messages) + 2,
                                            n |-> 0]]
    /\ UNCHANGED <<mounted, isInitialized, db, keyGen, analysisVars, backupVars,
                   streamVars, credVars, saveVars, roleVars, exportVars>>

\* the onStream callback: updateLastMessage with the text streamed so far
StreamDelta(e) ==
    /\ exchange[e].pc = "streaming"
    /\ exchange[e].n < MaxDelta
    /\ messages' = updateLastMessage(messages, Content("stream", exchange[e].n + 1))
    /\ exchange' = [exchange EXCEPT ![e].n = @ + 1]
    /\ UNCHANGED <<isStreaming, mounted, isInitialized, db, keyGen, analysisVars,
                   backupVars, streamVars, credVars, saveVars, roleVars, exportVars>>

\* chatWithAssistant resolves: finally, setStreaming(false)
ExchangeDone(e) ==
    /\ exchange[e].pc = "streaming"
    /\ isStreaming' = FALSE
    /\ exchange' = [exchange EXCEPT ![e] = IdleExchange]
    /\ UNCHANGED <<messages, mounted, isInitialized, db, keyGen, analysisVars,
                   backupVars, streamVars, credVars, saveVars, roleVars, exportVars>>

\* chatWithAssistant rejects: the catch block writes the apology with
\* updateLastMessage, then finally, setStreaming(false)
ExchangeFail(e) ==
    /\ exchange[e].pc = "streaming"
    /\ messages' = updateLastMessage(messages, Content("error", 0))
    /\ isStreaming' = FALSE
    /\ exchange' = [exchange EXCEPT ![e] = IdleExchange]
    /\ UNCHANGED <<mounted, isInitialized, db, keyGen, analysisVars, backupVars,
                   streamVars, credVars, saveVars, roleVars, exportVars>>

ChatNext ==
    \/ MountChat
    \/ UnmountChat
    \/ \E valid \in BOOLEAN : TestApiKey(valid)
    \/ \E e \in Exchanges :
          SendMessage(e) \/ StreamDelta(e) \/ ExchangeDone(e) \/ ExchangeFail(e)

ChatSpec == ChatInit /\ [][ChatNext]_vars

Streaming == {e \in Exchanges : exchange[e].pc = "streaming"}

\* C21: at most one exchange is streaming at any time, isStreaming is true
\* exactly while one is, and while it is true no send adds a message or starts
\* an exchange
C21_OneDecodePerExchange ==
    /\ Cardinality(Streaming) <= 1
    /\ isStreaming <=> Streaming # {}

\* an exchange has streamed text, the page is on screen with a valid key and
\* room for two more messages, and another handleSendMessage could run
C21_Witness ==
    /\ isStreaming /\ mounted /\ isKeyValid
    /\ Len(messages) + 2 <= MaxMessages
    /\ \E e \in Streaming : exchange[e].n > 0
    /\ \E e \in Exchanges : exchange[e].pc = "idle"

\* C28: a step never shortens the message list, and the content of a message
\* changes only if it is the placeholder of a streaming exchange, which stays
\* an assistant message
C28_OnlyPlaceholderWritten ==
    [][/\ Len(messages') >= Len(messages)
       /\ \A i \in 1..Len(messages) :
             messages'[i] # messages[i] =>
                 /\ \E e \in Streaming : exchange[e].placeholder = i
                 /\ messages'[i].role = messages[i].role]_vars

\* ------------------------------------------------------------------
\* exportAllData as seven reads (part_002), next to the writers
\* ------------------------------------------------------------------

\* the awaited write of a saveProfile or a startAnalysis that has been
\* requested already: the call follows the previous await at once
PendingWrites ==
    {<<"save", s>> : s \in {x \in Saves : saves[x].pc = "looked"}} \cup
    {<<"run", r>> : r \in {x \in Runs : runs[x].pc = "flipped"}}

TableOf(w) == IF w[1] = "save" THEN saves[w[2]].table ELSE "analyses"

\* exportAllData is called: Promise.all over seven toArray calls, each a
\* transaction of its own on one table
ExportBegin ==
    /\ exportPc = "idle"
    /\ exportPc' = "reading"
    /\ readDone' = {}
    /\ snapshot' = [t \in Tables |-> {}]
    /\ seen' = {db}
    /\ ahead' = PendingWrites
    /\ UNCHANGED <<db, keyGen, analysisVars, backupVars, streamVars, credVars,
                   saveVars, roleVars, chatVars>>

\* one toArray is answered; it waits for a write on its table requested before it
ExportRead(t) ==
    /\ exportPc = "reading"
    /\ t \notin readDone
    /\ \A w \in ahead : TableOf(w) # t
    /\ readDone' = readDone \cup {t}
    /\ snapshot' = [snapshot EXCEPT ![t] = db[t]]
    /\ UNCHANGED <<exportPc, seen, ahead, db, keyGen, analysisVars, backupVars,
                   streamVars, credVars, saveVars, roleVars, chatVars>>

\* Promise.all resolves and exportAllData returns the document
ExportEnd ==
    /\ exportPc = "reading"
    /\ readDone = Tables
    /\ exportPc' = "done"
    /\ UNCHANGED <<readDone, snapshot, seen, ahead, db, keyGen, analysisVars,
                   backupVars, streamVars, credVars, saveVars, roleVars, chatVars>>

\* WriteProfile while the key generators are below MaxKey (imports empty the
\* profile tables over and over, the key generators keep counting)
WriteProfileBelowMaxKey(s) ==
    /\ \A t \in ProfileTables : profileKeyGen[t] < MaxKey
    /\ WriteProfile(s)

\* one user, one saveProfile and one startAnalysis next to exports and imports
ExportNext ==
    \/ ExportBegin
    \/ \E t \in Tables : ExportRead(t)
    \/ ExportEnd
    \/ SetCurrentUser(1)
    \/ ManualSave(1) \/ LookupProfile(1) \/ EndSave(1)
    \/ WriteProfileBelowMaxKey(1)
    \/ MountEffect(1, 1) \/ Flip(1) \/ Insert(1) \/ Complete(1)
    \/ ImportFile(EmptyDoc)

ExportSpec == Init /\ [][ExportNext]_vars

\* C29: the document exportAllData returns holds, for all seven tables, the
\* rows of one store state that existed between the call and the return
C29_ExportIsOneState ==
    exportPc = "done" => snapshot \in seen

=============================================================================
